---- MODULE Spec2Model ----
(***************************************************************************)
(* RewardProcessor (src/src/lib.rs): a Stylus contract holding four        *)
(* configuration slots (multiply_factor, owner, percentage_denominator,    *)
(* percentage_bonus), three owner-gated mutators, an authorization probe   *)
(* and a read-only reward computation with linear time decay.              *)
(*                                                                         *)
(* Every call runs to completion before the next one starts (the EVM       *)
(* serialises transactions), so each public method is one action.  The     *)
(* call made by a step and what it returned are kept in `call` and `ret`,  *)
(* so that properties of single calls can be stated over steps.            *)
(***************************************************************************)
EXTENDS Integers, Sequences, FiniteSets, TLC

VARIABLES
    constructed,             \* the #[constructor] has run successfully
    multiply_factor,         \* uint256 multiply_factor
    owner,                   \* address owner
    percentage_denominator,  \* uint256 percentage_denominator
    percentage_bonus,        \* uint256 percentage_bonus
    log,                     \* the events emitted so far, in order
    call,                    \* the last call made: method, tx_origin, arguments
    ret,                     \* what the last call returned
    history                  \* what SpecHistory remembers of earlier calls

vars == <<constructed, multiply_factor, owner, percentage_denominator,
          percentage_bonus, log, call, ret, history>>

config == <<multiply_factor, owner, percentage_denominator, percentage_bonus>>

(***************************************************************************)
(* Bounds of the model.                                                    *)
(***************************************************************************)
\* Addresses are 0..MaxAddr; 0 is Address::ZERO, which signs no transaction.
MaxAddr == 2
\* Mutators are explored until the event log holds MaxLog events.
MaxLog == 2
\* Times are multiples of TimeUnit, from 0 to MaxTime * TimeUnit.
MaxTime == 5
TimeUnit == 500
\* U256 arithmetic is modelled at Width bits, wrapping at 2^Width: the code's
\* width is 256, scaled down here so that wrapped products can be explored.
\* The arguments below stay under 2^Width, as they stay under 2^256.
Width == 28

Modulus == 2 ^ Width

ZeroAddress == 0
Address == 0 .. MaxAddr
Origins == 1 .. MaxAddr

\* Arguments the calls are explored with.
Factors == {0, 1, 5000, 16383, 20000}
Bonuses == {0, 1, 2500}
Amounts == {0, 1, 999, 1000, 16383, 30000}
Times == {TimeUnit * k : k \in 0 .. MaxTime}

(***************************************************************************)
(* U256 arithmetic.  A value carries the faults met while computing it:    *)
(* "overflow" and "underflow" wrap (or panic, with overflow checks on),    *)
(* "div_by_zero" always panics.                                            *)
(***************************************************************************)
U256(x) == [v |-> x, f |-> {}]

\* x * y < 2^Width, decided without forming a product that large
Fits(x, y) == x = 0 \/ y <= (Modulus - 1) \div x

\* (x * y) % 2^Width, by doubling, so that no intermediate value passes 2^(Width+2)
RECURSIVE WrappingMul(_, _)
WrappingMul(x, y) ==
    IF y = 0 THEN 0
    ELSE (2 * WrappingMul(x, y \div 2) + (IF y % 2 = 1 THEN x ELSE 0)) % Modulus

Mul(a, b) ==
    [v |-> IF Fits(a.v, b.v) THEN a.v * b.v ELSE WrappingMul(a.v, b.v),
     f |-> a.f \cup b.f \cup (IF Fits(a.v, b.v) THEN {} ELSE {"overflow"})]

Add(a, b) ==
    [v |-> (a.v + b.v) % Modulus,
     f |-> a.f \cup b.f \cup (IF a.v + b.v >= Modulus THEN {"overflow"} ELSE {})]

Sub(a, b) ==
    [v |-> (a.v - b.v) % Modulus,
     f |-> a.f \cup b.f \cup (IF a.v < b.v THEN {"underflow"} ELSE {})]

Div(a, b) ==
    [v |-> IF b.v = 0 THEN 0 ELSE a.v \div b.v,
     f |-> a.f \cup b.f \cup (IF b.v = 0 THEN {"div_by_zero"} ELSE {})]

(***************************************************************************)
(* Events.                                                                 *)
(***************************************************************************)
MultiplyFactorUpdated(sender, value) ==
    [event |-> "MultiplyFactorUpdated", sender |-> sender,
     new_owner |-> ZeroAddress, value |-> value]

PercentageBonusUpdated(sender, value) ==
    [event |-> "PercentageBonusUpdated", sender |-> sender,
     new_owner |-> ZeroAddress, value |-> value]

OwnershipTransferred(previous_owner, new_owner) ==
    [event |-> "OwnershipTransferred", sender |-> previous_owner,
     new_owner |-> new_owner, value |-> 0]

(***************************************************************************)
(* The record of a call and of its result.                                 *)
(***************************************************************************)
NoArgs ==
    [value |-> 0, new_owner |-> ZeroAddress, amount |-> 0, current_time |-> 0,
     start_time |-> 0, end_time |-> 0, has_bonus |-> FALSE,
     has_strict_bonus |-> FALSE]

Call(op, tx_origin, args) == [op |-> op, tx_origin |-> tx_origin, args |-> args]

Ret(status, reward) == [status |-> status, reward |-> reward.v, faults |-> reward.f]

Returned(status) == Ret(status, U256(0))

\* Nothing remembered: no deployment, no reward query.
NoHistory ==
    [deployer |-> ZeroAddress, initial_factor |-> 0,
     queried |-> FALSE, querier |-> ZeroAddress, args |-> NoArgs,
     ret |-> Returned("none")]

Init ==
    /\ history = NoHistory
    /\ constructed = FALSE
    /\ multiply_factor = 0
    /\ owner = ZeroAddress
    /\ percentage_denominator = 0
    /\ percentage_bonus = 0
    /\ log = <<>>
    /\ call = Call("none", ZeroAddress, NoArgs)
    /\ ret = Returned("none")

(***************************************************************************)
(* constructor.  #[constructor] makes it the deployment's initialiser: it  *)
(* runs before any other method and not again once it has succeeded; a     *)
(* failed deployment leaves the slots unwritten and may be tried again.    *)
(* The other methods are therefore explored on a constructed contract.     *)
(***************************************************************************)
constructor_result(multiply_factor_) ==
    IF multiply_factor_ = 0 THEN "InvalidMultiplyFactor" ELSE "Ok"

\* Mutant: the two defaults are written to each other's slot.
constructor_SwappedDefaults(tx_origin, multiply_factor_) ==
    /\ ~constructed
    /\ call' = Call("constructor", tx_origin, [NoArgs EXCEPT !.value = multiply_factor_])
    /\ ret' = Returned(constructor_result(multiply_factor_))
    /\ IF constructor_result(multiply_factor_) = "Ok"
       THEN /\ multiply_factor' = multiply_factor_
            /\ owner' = tx_origin
            /\ percentage_denominator' = 1000
            /\ percentage_bonus' = 10000
            /\ constructed' = TRUE
       ELSE UNCHANGED <<config, constructed>>
    /\ UNCHANGED log

constructor(tx_origin, multiply_factor_) ==
    /\ ~constructed
    /\ call' = Call("constructor", tx_origin, [NoArgs EXCEPT !.value = multiply_factor_])
    /\ ret' = Returned(constructor_result(multiply_factor_))
    /\ IF constructor_result(multiply_factor_) = "Ok"
       THEN /\ multiply_factor' = multiply_factor_
            /\ owner' = tx_origin
            /\ percentage_denominator' = 10000
            /\ percentage_bonus' = 1000
            /\ constructed' = TRUE
       ELSE UNCHANGED <<config, constructed>>
    /\ UNCHANGED log

(***************************************************************************)
(* assert_owner                                                            *)
(***************************************************************************)
\* Mutant: the comparison is inverted.
assert_owner_result_Inverted(tx_origin) ==
    IF tx_origin = owner THEN "Unauthorized" ELSE "Ok"

\* Mutant: a contract whose owner is the zero address can be claimed by anyone.
assert_owner_result_ZeroIsOpen(tx_origin) ==
    IF tx_origin # owner /\ owner # ZeroAddress THEN "Unauthorized" ELSE "Ok"

assert_owner_result(tx_origin) ==
    IF tx_origin # owner THEN "Unauthorized" ELSE "Ok"

assert_owner(tx_origin) ==
    /\ constructed
    /\ call' = Call("assert_owner", tx_origin, NoArgs)
    /\ ret' = Returned(assert_owner_result(tx_origin))
    /\ UNCHANGED <<config, constructed, log>>

(***************************************************************************)
(* update_multiply_factor                                                  *)
(***************************************************************************)
\* Mutant: zero is not rejected.
update_multiply_factor_result_NoZeroCheck(tx_origin, new_factor) ==
    IF assert_owner_result(tx_origin) # "Ok" THEN assert_owner_result(tx_origin)
    ELSE "Ok"

update_multiply_factor_result(tx_origin, new_factor) ==
    IF assert_owner_result(tx_origin) # "Ok" THEN assert_owner_result(tx_origin)
    ELSE IF new_factor = 0 THEN "InvalidMultiplyFactor"
    ELSE "Ok"

\* Mutant: the slot is written before the argument is validated.
update_multiply_factor_WriteBeforeCheck(tx_origin, new_factor) ==
    /\ constructed
    /\ call' = Call("update_multiply_factor", tx_origin,
                    [NoArgs EXCEPT !.value = new_factor])
    /\ ret' = Returned(update_multiply_factor_result(tx_origin, new_factor))
    /\ IF update_multiply_factor_result(tx_origin, new_factor) = "Ok"
       THEN /\ Len(log) < MaxLog
            /\ multiply_factor' = new_factor
            /\ log' = Append(log, MultiplyFactorUpdated(tx_origin, new_factor))
            /\ UNCHANGED <<owner, percentage_denominator, percentage_bonus>>
       ELSE IF assert_owner_result(tx_origin) = "Ok"
       THEN /\ multiply_factor' = new_factor
            /\ UNCHANGED <<owner, percentage_denominator, percentage_bonus, log>>
       ELSE UNCHANGED <<config, log>>
    /\ UNCHANGED constructed

\* Mutant: the new factor is written to the bonus slot as well.
update_multiply_factor_AlsoWritesBonus(tx_origin, new_factor) ==
    /\ constructed
    /\ call' = Call("update_multiply_factor", tx_origin,
                    [NoArgs EXCEPT !.value = new_factor])
    /\ ret' = Returned(update_multiply_factor_result(tx_origin, new_factor))
    /\ IF update_multiply_factor_result(tx_origin, new_factor) = "Ok"
       THEN /\ Len(log) < MaxLog
            /\ multiply_factor' = new_factor
            /\ percentage_bonus' = new_factor
            /\ log' = Append(log, MultiplyFactorUpdated(tx_origin, new_factor))
            /\ UNCHANGED <<owner, percentage_denominator>>
       ELSE UNCHANGED <<config, log>>
    /\ UNCHANGED constructed

\* Mutant: the event carries the factor read before the slot is written.
update_multiply_factor_LogsOldValue(tx_origin, new_factor) ==
    /\ constructed
    /\ call' = Call("update_multiply_factor", tx_origin,
                    [NoArgs EXCEPT !.value = new_factor])
    /\ ret' = Returned(update_multiply_factor_result(tx_origin, new_factor))
    /\ IF update_multiply_factor_result(tx_origin, new_factor) = "Ok"
       THEN /\ Len(log) < MaxLog
            /\ multiply_factor' = new_factor
            /\ log' = Append(log, MultiplyFactorUpdated(tx_origin, multiply_factor))
            /\ UNCHANGED <<owner, percentage_denominator, percentage_bonus>>
       ELSE UNCHANGED <<config, log>>
    /\ UNCHANGED constructed

update_multiply_factor(tx_origin, new_factor) ==
    /\ constructed
    /\ call' = Call("update_multiply_factor", tx_origin,
                    [NoArgs EXCEPT !.value = new_factor])
    /\ ret' = Returned(update_multiply_factor_result(tx_origin, new_factor))
    /\ IF update_multiply_factor_result(tx_origin, new_factor) = "Ok"
       THEN /\ Len(log) < MaxLog
            /\ multiply_factor' = new_factor
            /\ log' = Append(log, MultiplyFactorUpdated(tx_origin, new_factor))
            /\ UNCHANGED <<owner, percentage_denominator, percentage_bonus>>
       ELSE UNCHANGED <<config, log>>
    /\ UNCHANGED constructed

(***************************************************************************)
(* update_percentage_bonus                                                 *)
(***************************************************************************)
\* Mutant: the argument is validated before the owner check.
update_percentage_bonus_result_ValidateFirst(tx_origin, new_bonus) ==
    IF new_bonus = 0 THEN "ZeroValue"
    ELSE assert_owner_result(tx_origin)

\* Mutant: zero is rejected with the multiply factor's error.
update_percentage_bonus_result_WrongError(tx_origin, new_bonus) ==
    IF assert_owner_result(tx_origin) # "Ok" THEN assert_owner_result(tx_origin)
    ELSE IF new_bonus = 0 THEN "InvalidMultiplyFactor"
    ELSE "Ok"

update_percentage_bonus_result(tx_origin, new_bonus) ==
    IF assert_owner_result(tx_origin) # "Ok" THEN assert_owner_result(tx_origin)
    ELSE IF new_bonus = 0 THEN "ZeroValue"
    ELSE "Ok"

\* Mutant: the new bonus is written to the denominator's slot.
update_percentage_bonus_WrongSlot(tx_origin, new_bonus) ==
    /\ constructed
    /\ call' = Call("update_percentage_bonus", tx_origin,
                    [NoArgs EXCEPT !.value = new_bonus])
    /\ ret' = Returned(update_percentage_bonus_result(tx_origin, new_bonus))
    /\ IF update_percentage_bonus_result(tx_origin, new_bonus) = "Ok"
       THEN /\ Len(log) < MaxLog
            /\ percentage_denominator' = new_bonus
            /\ log' = Append(log, PercentageBonusUpdated(tx_origin, new_bonus))
            /\ UNCHANGED <<multiply_factor, owner, percentage_bonus>>
       ELSE UNCHANGED <<config, log>>
    /\ UNCHANGED constructed

update_percentage_bonus(tx_origin, new_bonus) ==
    /\ constructed
    /\ call' = Call("update_percentage_bonus", tx_origin,
                    [NoArgs EXCEPT !.value = new_bonus])
    /\ ret' = Returned(update_percentage_bonus_result(tx_origin, new_bonus))
    /\ IF update_percentage_bonus_result(tx_origin, new_bonus) = "Ok"
       THEN /\ Len(log) < MaxLog
            /\ percentage_bonus' = new_bonus
            /\ log' = Append(log, PercentageBonusUpdated(tx_origin, new_bonus))
            /\ UNCHANGED <<multiply_factor, owner, percentage_denominator>>
       ELSE UNCHANGED <<config, log>>
    /\ UNCHANGED constructed

(***************************************************************************)
(* transfer_ownership                                                      *)
(***************************************************************************)
\* Mutant: the owner check is missing.
transfer_ownership_result_NoOwnerCheck(tx_origin, new_owner) ==
    "Ok"

transfer_ownership_result(tx_origin, new_owner) ==
    assert_owner_result(tx_origin)

\* Mutant: the caller, not the argument, is written to the owner slot.
transfer_ownership_KeepsCaller(tx_origin, new_owner) ==
    /\ constructed
    /\ call' = Call("transfer_ownership", tx_origin,
                    [NoArgs EXCEPT !.new_owner = new_owner])
    /\ ret' = Returned(transfer_ownership_result(tx_origin, new_owner))
    /\ IF transfer_ownership_result(tx_origin, new_owner) = "Ok"
       THEN /\ Len(log) < MaxLog
            /\ owner' = tx_origin
            /\ log' = Append(log, OwnershipTransferred(tx_origin, new_owner))
            /\ UNCHANGED <<multiply_factor, percentage_denominator, percentage_bonus>>
       ELSE UNCHANGED <<config, log>>
    /\ UNCHANGED constructed

\* Mutant: previous_owner is read from the owner slot after it is written.
transfer_ownership_LogsNewOwner(tx_origin, new_owner) ==
    /\ constructed
    /\ call' = Call("transfer_ownership", tx_origin,
                    [NoArgs EXCEPT !.new_owner = new_owner])
    /\ ret' = Returned(transfer_ownership_result(tx_origin, new_owner))
    /\ IF transfer_ownership_result(tx_origin, new_owner) = "Ok"
       THEN /\ Len(log) < MaxLog
            /\ owner' = new_owner
            /\ log' = Append(log, OwnershipTransferred(new_owner, new_owner))
            /\ UNCHANGED <<multiply_factor, percentage_denominator, percentage_bonus>>
       ELSE UNCHANGED <<config, log>>
    /\ UNCHANGED constructed

transfer_ownership(tx_origin, new_owner) ==
    /\ constructed
    /\ call' = Call("transfer_ownership", tx_origin,
                    [NoArgs EXCEPT !.new_owner = new_owner])
    /\ ret' = Returned(transfer_ownership_result(tx_origin, new_owner))
    /\ IF transfer_ownership_result(tx_origin, new_owner) = "Ok"
       THEN /\ Len(log) < MaxLog
            /\ owner' = new_owner
            /\ log' = Append(log, OwnershipTransferred(tx_origin, new_owner))
            /\ UNCHANGED <<multiply_factor, percentage_denominator, percentage_bonus>>
       ELSE UNCHANGED <<config, log>>
    /\ UNCHANGED constructed

(***************************************************************************)
(* calculate_reward_at_time and calculate_reward                           *)
(***************************************************************************)
\* Mutant: the multiplier decays over the whole of max_multiplier.
time_decay_multiplier_FullDecay(current_time, start_time, end_time) ==
    IF current_time.v <= start_time.v
    THEN U256(percentage_denominator)
    ELSE IF current_time.v >= end_time.v
    THEN Div(U256(percentage_denominator), U256(2))
    ELSE LET total_duration == Sub(end_time, start_time)
             elapsed_time == Sub(current_time, start_time)
             max_multiplier == U256(percentage_denominator)
             decay_range == max_multiplier
             decay_amount == Div(Mul(decay_range, elapsed_time), total_duration)
         IN  Sub(max_multiplier, decay_amount)

\* Mutant: the comparison with end_time is reversed.
time_decay_multiplier_ReversedEnd(current_time, start_time, end_time) ==
    IF current_time.v <= start_time.v
    THEN U256(percentage_denominator)
    ELSE IF end_time.v >= current_time.v
    THEN Div(U256(percentage_denominator), U256(2))
    ELSE LET total_duration == Sub(end_time, start_time)
             elapsed_time == Sub(current_time, start_time)
             max_multiplier == U256(percentage_denominator)
             min_multiplier == Div(U256(percentage_denominator), U256(2))
             decay_range == Sub(max_multiplier, min_multiplier)
             decay_amount == Div(Mul(decay_range, elapsed_time), total_duration)
         IN  Sub(max_multiplier, decay_amount)

time_decay_multiplier(current_time, start_time, end_time) ==
    IF current_time.v <= start_time.v
    THEN U256(percentage_denominator)
    ELSE IF current_time.v >= end_time.v
    THEN Div(U256(percentage_denominator), U256(2))
    ELSE LET total_duration == Sub(end_time, start_time)
             elapsed_time == Sub(current_time, start_time)
             max_multiplier == U256(percentage_denominator)
             min_multiplier == Div(U256(percentage_denominator), U256(2))
             decay_range == Sub(max_multiplier, min_multiplier)
             decay_amount == Div(Mul(decay_range, elapsed_time), total_duration)
         IN  Sub(max_multiplier, decay_amount)

decayed_reward(amount, current_time, start_time, end_time) ==
    Div(Mul(amount, time_decay_multiplier(current_time, start_time, end_time)),
        U256(percentage_denominator))

bonus_reward(amount) ==
    Div(Mul(amount, U256(percentage_bonus)), U256(percentage_denominator))

strict_bonus_reward(amount) ==
    Div(Mul(amount, U256(multiply_factor)), U256(percentage_denominator))

\* Mutant: the bonuses are taken on the decayed reward, not on the amount.
reward_at_time_BonusOnDecayed(amount, current_time, start_time, end_time, has_bonus, has_strict_bonus) ==
    LET reward0 == decayed_reward(amount, current_time, start_time, end_time)
        reward1 == IF has_bonus THEN Add(reward0, bonus_reward(reward0)) ELSE reward0
        reward2 == IF has_strict_bonus THEN Add(reward1, strict_bonus_reward(reward0))
                   ELSE reward1
    IN  reward2

\* Mutant: the three products are summed and divided once.
reward_at_time_SingleDivision(amount, current_time, start_time, end_time, has_bonus, has_strict_bonus) ==
    LET sum0 == Mul(amount, time_decay_multiplier(current_time, start_time, end_time))
        sum1 == IF has_bonus THEN Add(sum0, Mul(amount, U256(percentage_bonus))) ELSE sum0
        sum2 == IF has_strict_bonus THEN Add(sum1, Mul(amount, U256(multiply_factor)))
                ELSE sum1
    IN  Div(sum2, U256(percentage_denominator))

reward_at_time(amount, current_time, start_time, end_time, has_bonus, has_strict_bonus) ==
    LET reward0 == decayed_reward(amount, current_time, start_time, end_time)
        reward1 == IF has_bonus THEN Add(reward0, bonus_reward(amount)) ELSE reward0
        reward2 == IF has_strict_bonus THEN Add(reward1, strict_bonus_reward(amount))
                   ELSE reward1
    IN  reward2

\* What a reward query hands back: a division by zero panics; a wrapped
\* intermediate value panics in a build with overflow checks and is returned
\* as computed in a build without them.
reward_outcomes(reward) ==
    IF "div_by_zero" \in reward.f THEN {[status |-> "panic", reward |-> 0, faults |-> reward.f]}
    ELSE IF reward.f # {}
    THEN {Ret("Ok", reward), [status |-> "panic", reward |-> 0, faults |-> reward.f]}
    ELSE {Ret("Ok", reward)}

RewardArgs(amount, current_time, start_time, end_time, has_bonus, has_strict_bonus) ==
    [NoArgs EXCEPT !.amount = amount, !.current_time = current_time,
                   !.start_time = start_time, !.end_time = end_time,
                   !.has_bonus = has_bonus, !.has_strict_bonus = has_strict_bonus]

\* Mutant: the percentage bonus is granted to the owner alone.
calculate_reward_at_time_BonusForOwner(tx_origin, amount, current_time, start_time, end_time, has_bonus, has_strict_bonus) ==
    /\ constructed
    /\ call' = Call("calculate_reward_at_time", tx_origin,
                    RewardArgs(amount, current_time, start_time, end_time,
                               has_bonus, has_strict_bonus))
    /\ ret' \in reward_outcomes(reward_at_time(U256(amount), U256(current_time),
                                               U256(start_time), U256(end_time),
                                               has_bonus /\ tx_origin = owner,
                                               has_strict_bonus))
    /\ UNCHANGED <<config, constructed, log>>

calculate_reward_at_time(tx_origin, amount, current_time, start_time, end_time, has_bonus, has_strict_bonus) ==
    /\ constructed
    /\ call' = Call("calculate_reward_at_time", tx_origin,
                    RewardArgs(amount, current_time, start_time, end_time,
                               has_bonus, has_strict_bonus))
    /\ ret' \in reward_outcomes(reward_at_time(U256(amount), U256(current_time),
                                               U256(start_time), U256(end_time),
                                               has_bonus, has_strict_bonus))
    /\ UNCHANGED <<config, constructed, log>>

\* current_time is the block timestamp, an input of the environment.
calculate_reward(tx_origin, block_timestamp, amount, start_time, end_time, has_bonus, has_strict_bonus) ==
    /\ constructed
    /\ call' = Call("calculate_reward", tx_origin,
                    RewardArgs(amount, block_timestamp, start_time, end_time,
                               has_bonus, has_strict_bonus))
    /\ ret' \in reward_outcomes(reward_at_time(U256(amount), U256(block_timestamp),
                                               U256(start_time), U256(end_time),
                                               has_bonus, has_strict_bonus))
    /\ UNCHANGED <<config, constructed, log>>

(***************************************************************************)
(* Spec: every method, called by every origin, in every order.  Reward     *)
(* queries use one amount and one window here; SpecReward explores them    *)
(* over all of Amounts and Times.                                          *)
(***************************************************************************)
MainFactors == {0, 1, 5000}
MainBonuses == {0, 2500}
QueryTimes == {2 * TimeUnit, 3 * TimeUnit}

Next ==
    \/ \E o \in Origins, m \in MainFactors :
           constructor(o, m) /\ UNCHANGED history
    \/ \E o \in Origins :
           assert_owner(o) /\ UNCHANGED history
    \/ \E o \in Origins, m \in MainFactors :
           update_multiply_factor(o, m) /\ UNCHANGED history
    \/ \E o \in Origins, b \in MainBonuses :
           update_percentage_bonus(o, b) /\ UNCHANGED history
    \/ \E o \in Origins, n \in Address :
           transfer_ownership(o, n) /\ UNCHANGED history
    \/ \E o \in Origins, t \in QueryTimes, hb \in BOOLEAN :
           /\ calculate_reward_at_time(o, 1000, t, 2 * TimeUnit, 4 * TimeUnit, hb, TRUE)
           /\ UNCHANGED history
    \/ \E o \in Origins :
           /\ calculate_reward(o, 3 * TimeUnit, 1000, 2 * TimeUnit, 4 * TimeUnit, TRUE, TRUE)
           /\ UNCHANGED history

Spec == Init /\ [][Next]_vars

(***************************************************************************)
(* SpecReward: the reward computation over all of Amounts and Times, under *)
(* the configurations the deployer can set.  A query leaves everything but *)
(* `call` and `ret` as it was, so a query is explored after a call that is *)
(* not itself a query.                                                     *)
(***************************************************************************)
Deployer == 1

QueryOps == {"calculate_reward_at_time", "calculate_reward"}

NextReward ==
    \/ \E m \in Factors :
           constructor(Deployer, m) /\ UNCHANGED history
    \/ \E b \in Bonuses :
           update_percentage_bonus(Deployer, b) /\ UNCHANGED history
    \/ /\ call.op \notin QueryOps
       /\ \E a \in Amounts, t, s, e \in Times, hb, hsb \in BOOLEAN :
              calculate_reward_at_time(Deployer, a, t, s, e, hb, hsb)
       /\ UNCHANGED history
    \/ /\ call.op \notin QueryOps
       /\ \E a \in {1000}, t, s, e \in QueryTimes, hb, hsb \in BOOLEAN :
              calculate_reward(Deployer, t, a, s, e, hb, hsb)
       /\ UNCHANGED history

SpecReward == Init /\ [][NextReward]_vars

(***************************************************************************)
(* SpecHistory: the calls of Spec, with `history` keeping what a later     *)
(* state no longer shows: who deployed the contract and with which factor, *)
(* and one earlier calculate_reward_at_time call (its arguments and its    *)
(* result) since the last successful mutation.  Which query is kept is     *)
(* left open, so that each later query meets each earlier one.             *)
(***************************************************************************)
\* the deployment is remembered when the constructor succeeds
RememberDeployment ==
    history' = IF ret'.status = "Ok"
               THEN [history EXCEPT !.deployer = call'.tx_origin,
                                    !.initial_factor = call'.args.value]
               ELSE history

\* a successful mutation ends the remembered query's term
ForgetQueryOnMutation ==
    history' = IF ret'.status = "Ok"
               THEN [history EXCEPT !.queried = FALSE, !.querier = ZeroAddress,
                                    !.args = NoArgs, !.ret = Returned("none")]
               ELSE history

\* the query of this step is remembered, or the earlier one is kept
RememberQuery ==
    history' \in {history,
                  [history EXCEPT !.queried = TRUE, !.querier = call'.tx_origin,
                                  !.args = call'.args, !.ret = ret']}

NextHistory ==
    \/ \E o \in Origins, m \in {0, 1} :
           constructor(o, m) /\ RememberDeployment
    \/ \E o \in Origins :
           assert_owner(o) /\ UNCHANGED history
    \/ \E o \in Origins, m \in {0, 5000} :
           update_multiply_factor(o, m) /\ ForgetQueryOnMutation
    \/ \E o \in Origins, b \in MainBonuses :
           update_percentage_bonus(o, b) /\ ForgetQueryOnMutation
    \/ \E o \in Origins, n \in Address :
           transfer_ownership(o, n) /\ ForgetQueryOnMutation
    \/ \E o \in Origins, t \in QueryTimes :
           /\ calculate_reward_at_time(o, 1000, t, 2 * TimeUnit, 4 * TimeUnit, TRUE, TRUE)
           /\ RememberQuery
    \/ \E o \in Origins :
           /\ calculate_reward(o, 3 * TimeUnit, 1000, 2 * TimeUnit, 4 * TimeUnit, TRUE, TRUE)
           /\ UNCHANGED history

SpecHistory == Init /\ [][NextHistory]_vars

(***************************************************************************)
(* Properties.                                                             *)
(***************************************************************************)
MutatorOps == {"update_multiply_factor", "update_percentage_bonus", "transfer_ownership"}

GuardedOps == MutatorOps \cup {"assert_owner"}

ErrorStatuses == {"Unauthorized", "InvalidMultiplyFactor", "ZeroValue"}

\* C1: once the constructor has succeeded, multiply_factor > 0 and
\* percentage_bonus > 0 in every state, whatever calls are made by whomever.
C1_FactorsPositive ==
    constructed => (multiply_factor > 0 /\ percentage_bonus > 0)

\* The owner has set both fields: the multiply factor first, then the bonus.
C1_Witness ==
    /\ constructed
    /\ Len(log) = 2
    /\ log[1].event = "MultiplyFactorUpdated"
    /\ log[2].event = "PercentageBonusUpdated"
    /\ multiply_factor = log[1].value
    /\ percentage_bonus = log[2].value

\* C2: a mutator called by anyone but the stored owner returns Unauthorized,
\* whatever its argument (zero included): the owner check comes first.
C2_NonOwnerUnauthorized ==
    [][(call'.op \in MutatorOps /\ call'.tx_origin # owner)
           => ret'.status = "Unauthorized"]_vars

\* A non-owner has passed zero to update_percentage_bonus.
C2_Witness ==
    /\ call.op = "update_percentage_bonus"
    /\ call.args.value = 0
    /\ call.tx_origin # owner
    /\ ret.status = "Unauthorized"

\* C3: a call that returns Unauthorized, InvalidMultiplyFactor or ZeroValue
\* leaves the four configuration fields and the emitted events as they were.
C3_ErrorLeavesState ==
    [][ret'.status \in ErrorStatuses
           => (config' = config /\ log' = log /\ constructed' = constructed)]_vars

\* The owner has passed zero to update_multiply_factor after an update.
C3_Witness ==
    /\ call.op = "update_multiply_factor"
    /\ call.tx_origin = owner
    /\ ret.status = "InvalidMultiplyFactor"
    /\ log # <<>>
    /\ multiply_factor # 0

\* C4: after construction, a step that changes multiply_factor,
\* percentage_bonus or owner is a call of that field's mutator made by the
\* owner stored before the step.
C4_OnlyOwnerMutates ==
    [][constructed =>
          /\ multiply_factor' # multiply_factor =>
                 (call'.op = "update_multiply_factor" /\ call'.tx_origin = owner)
          /\ percentage_bonus' # percentage_bonus =>
                 (call'.op = "update_percentage_bonus" /\ call'.tx_origin = owner)
          /\ owner' # owner =>
                 (call'.op = "transfer_ownership" /\ call'.tx_origin = owner)]_vars

\* The owner changed the multiply factor and then handed ownership on.
C4_Witness ==
    /\ Len(log) = 2
    /\ log[1].event = "MultiplyFactorUpdated"
    /\ log[2].event = "OwnershipTransferred"
    /\ log[2].sender # log[2].new_owner
    /\ owner = log[2].new_owner

HasTransfer(events) ==
    \E i \in 1 .. Len(events) : events[i].event = "OwnershipTransferred"

\* the latest OwnershipTransferred event of a log that has one
LastTransfer(events) ==
    events[CHOOSE i \in 1 .. Len(events) :
              /\ events[i].event = "OwnershipTransferred"
              /\ \A j \in (i + 1) .. Len(events) :
                     events[j].event # "OwnershipTransferred"]

\* C5 as stated: transfer_ownership by the owner succeeds for every new_owner
\* and stores it; from then until the next transfer, every mutator call and
\* every assert_owner call by the old owner returns Unauthorized.
C5_OldOwnerLocked ==
    [][/\ (call'.op = "transfer_ownership" /\ call'.tx_origin = owner)
              => (ret'.status = "Ok" /\ owner' = call'.args.new_owner)
       /\ (/\ HasTransfer(log)
           /\ call'.op \in GuardedOps
           /\ call'.tx_origin = LastTransfer(log).sender)
              => ret'.status = "Unauthorized"]_vars

\* C5 amended: the same, for the old owner of a transfer to an identity
\* other than itself; a transfer to oneself leaves the caller the owner.
C5_OldOwnerLockedUnlessSelf ==
    [][/\ (call'.op = "transfer_ownership" /\ call'.tx_origin = owner)
              => (ret'.status = "Ok" /\ owner' = call'.args.new_owner)
       /\ (/\ HasTransfer(log)
           /\ LastTransfer(log).new_owner # LastTransfer(log).sender
           /\ call'.op \in GuardedOps
           /\ call'.tx_origin = LastTransfer(log).sender)
              => ret'.status = "Unauthorized"]_vars

\* The old owner of a transfer to someone else has tried a mutator.
C5_Witness ==
    /\ HasTransfer(log)
    /\ log[Len(log)].event = "OwnershipTransferred"
    /\ log[Len(log)].new_owner # log[Len(log)].sender
    /\ owner = log[Len(log)].new_owner
    /\ call.op \in MutatorOps
    /\ call.tx_origin = log[Len(log)].sender
    /\ ret.status = "Unauthorized"

\* C6: the constructor, given a non-zero factor by any identity, succeeds and
\* leaves multiply_factor = the argument, owner = the caller,
\* percentage_denominator = 10000 and percentage_bonus = 1000.
C6_ConstructorSets ==
    (call.op = "constructor" /\ call.args.value # 0)
        => /\ ret.status = "Ok"
           /\ constructed
           /\ multiply_factor = call.args.value
           /\ owner = call.tx_origin
           /\ percentage_denominator = 10000
           /\ percentage_bonus = 1000

\* The second identity has deployed with factor 5000.
C6_Witness ==
    /\ call.op = "constructor"
    /\ call.tx_origin = 2
    /\ call.args.value = 5000
    /\ ret.status = "Ok"
    /\ owner = 2

\* the reward computation of the specification, over the unbounded integers
\* with truncating division: the time-decay multiplier ...
ExpectedMultiplier(D, current_time, start_time, end_time) ==
    IF current_time <= start_time THEN D
    ELSE IF current_time >= end_time THEN D \div 2
    ELSE D - ((D - D \div 2) * (current_time - start_time)) \div (end_time - start_time)

\* ... and the reward: each term on the original amount, truncated on its own
ExpectedReward(D, factor, bonus, a) ==
    (a.amount * ExpectedMultiplier(D, a.current_time, a.start_time, a.end_time)) \div D
    + (IF a.has_bonus THEN (a.amount * bonus) \div D ELSE 0)
    + (IF a.has_strict_bonus THEN (a.amount * factor) \div D ELSE 0)

\* C7: calculate_reward_at_time returns, when nothing overflows,
\* amount * m / D + (has_bonus ? amount * percentage_bonus / D : 0)
\* + (has_strict_bonus ? amount * multiply_factor / D : 0), m the time-decay
\* multiplier: each bonus is taken on the original amount and truncated on
\* its own, so what a flag adds does not depend on the three times.
C7_RewardFormula ==
    (call.op = "calculate_reward_at_time" /\ "overflow" \notin ret.faults)
        => /\ ret.status = "Ok"
           /\ ret.reward = ExpectedReward(percentage_denominator, multiply_factor,
                                          percentage_bonus, call.args)

\* The scenario of the tests: 1000 at mid-window with both bonuses,
\* multiply_factor 5000 and percentage_bonus 1000, is 750 + 100 + 500.
C7_Witness ==
    /\ call.op = "calculate_reward_at_time"
    /\ multiply_factor = 5000
    /\ percentage_bonus = 1000
    /\ call.args.amount = 1000
    /\ call.args.current_time = 1500
    /\ call.args.start_time = 1000
    /\ call.args.end_time = 2000
    /\ call.args.has_bonus
    /\ call.args.has_strict_bonus
    /\ ret.status = "Ok"
    /\ ret.reward = 1350

\* the multiplier the last query used
UsedMultiplier ==
    time_decay_multiplier(U256(call.args.current_time), U256(call.args.start_time),
                          U256(call.args.end_time))

NoBonus == ~call.args.has_bonus /\ ~call.args.has_strict_bonus

\* what C8 says of the multiplier, for every window, inverted and empty included
MultiplierAsStated ==
    LET D == percentage_denominator
        m == UsedMultiplier.v
        t == call.args.current_time
        s == call.args.start_time
        e == call.args.end_time
    IN  /\ UsedMultiplier.f = {}
        /\ D \div 2 <= m /\ m <= D
        /\ t <= s => m = D
        /\ (t > s /\ t >= e) => m = D \div 2
        /\ (s < t /\ t < e) => m = D - ((D - D \div 2) * (t - s)) \div (e - s)

C9_RewardTotal ==
    call.op \in QueryOps
        => /\ "div_by_zero" \notin ret.faults
           /\ "underflow" \notin ret.faults
           /\ "overflow" \notin ret.faults => ret.status = "Ok"

\* A query after the end of an empty window, the case a division by
\* end_time - start_time would not survive.
C9_Witness ==
    /\ call.op = "calculate_reward_at_time"
    /\ call.args.start_time = call.args.end_time
    /\ call.args.current_time > call.args.end_time
    /\ call.args.amount = 1000
    /\ NoBonus
    /\ ret.status = "Ok"
    /\ ret.reward = 500

\* C10: assert_owner returns Ok when the caller is the stored owner and
\* Unauthorized otherwise; after construction exactly one identity passes
\* it; a call of it changes no configuration field and emits no event.
C10_AssertOwner ==
    /\ [](constructed => Cardinality({a \in Address : assert_owner_result(a) = "Ok"}) = 1)
    /\ [][call'.op = "assert_owner"
              => /\ ret'.status = (IF call'.tx_origin = owner THEN "Ok" ELSE "Unauthorized")
                 /\ config' = config
                 /\ log' = log]_vars

\* After a transfer, the new owner has passed assert_owner.
C10_Witness ==
    /\ call.op = "assert_owner"
    /\ ret.status = "Ok"
    /\ call.tx_origin = owner
    /\ HasTransfer(log)
    /\ LastTransfer(log).sender # owner

\* C11: zero is rejected with its own error: InvalidMultiplyFactor by the
\* constructor and by update_multiply_factor called by the owner, ZeroValue
\* by update_percentage_bonus called by the owner; every other value the
\* owner passes to an updater is accepted and becomes the stored value.
C11_ZeroRejected ==
    [][/\ (call'.op = "constructor" /\ call'.args.value = 0)
              => ret'.status = "InvalidMultiplyFactor"
       /\ (call'.op = "update_multiply_factor" /\ call'.tx_origin = owner)
              => IF call'.args.value = 0
                 THEN ret'.status = "InvalidMultiplyFactor"
                 ELSE ret'.status = "Ok" /\ multiply_factor' = call'.args.value
       /\ (call'.op = "update_percentage_bonus" /\ call'.tx_origin = owner)
              => IF call'.args.value = 0
                 THEN ret'.status = "ZeroValue"
                 ELSE ret'.status = "Ok" /\ percentage_bonus' = call'.args.value]_vars

\* The owner has passed zero to update_percentage_bonus.
C11_Witness ==
    /\ call.op = "update_percentage_bonus"
    /\ call.tx_origin = owner
    /\ call.args.value = 0
    /\ ret.status = "ZeroValue"
    /\ percentage_bonus # 0

\* the event a successful mutator call is to emit, from the owner stored
\* before the call and the field as written by it
EventOfStep ==
    IF call'.op = "update_multiply_factor"
    THEN MultiplyFactorUpdated(owner, multiply_factor')
    ELSE IF call'.op = "update_percentage_bonus"
    THEN PercentageBonusUpdated(owner, percentage_bonus')
    ELSE OwnershipTransferred(owner, owner')

\* C12: a successful mutator call appends exactly one event, carrying the
\* owner stored before the call and the value just written; a failed call,
\* assert_owner, the constructor and the reward queries append none.
C12_OneEventPerMutation ==
    [][IF call'.op \in MutatorOps /\ ret'.status = "Ok"
       THEN /\ log' = Append(log, EventOfStep)
            /\ call'.tx_origin = owner
            /\ call'.op = "update_multiply_factor" => multiply_factor' = call'.args.value
            /\ call'.op = "update_percentage_bonus" => percentage_bonus' = call'.args.value
            /\ call'.op = "transfer_ownership" => owner' = call'.args.new_owner
       ELSE log' = log]_vars

\* Ownership has passed to another identity, after an update of the factor.
C12_Witness ==
    /\ log = <<MultiplyFactorUpdated(1, 5000), OwnershipTransferred(1, 2)>>
    /\ multiply_factor = 5000
    /\ owner = 2
    /\ call.op = "transfer_ownership"
    /\ ret.status = "Ok"

\* C13: percentage_denominator is 10000 in every state after construction.
C13_DenominatorFixed ==
    constructed => percentage_denominator = 10000

\* Both updaters have run, then a query.
C13_Witness ==
    /\ constructed
    /\ Len(log) = 2
    /\ log[1].event = "PercentageBonusUpdated"
    /\ log[2].event = "MultiplyFactorUpdated"
    /\ call.op \in QueryOps
    /\ percentage_denominator = 10000

\* C17: a call by anyone but the stored owner leaves multiply_factor,
\* percentage_bonus and owner as they are; so once the owner is an identity
\* that makes no call (the zero address, which signs nothing), the three
\* keep their values for good.
C17_AbandonedOwnershipIsFinal ==
    [][constructed =>
          /\ call'.tx_origin # owner
                 => UNCHANGED <<multiply_factor, percentage_bonus, owner>>
          /\ owner = ZeroAddress
                 => UNCHANGED <<multiply_factor, percentage_bonus, owner>>]_vars

\* Ownership went to the zero address, and a mutator has been tried since.
C17_Witness ==
    /\ constructed
    /\ owner = ZeroAddress
    /\ HasTransfer(log)
    /\ LastTransfer(log).new_owner = ZeroAddress
    /\ call.op \in MutatorOps
    /\ ret.status = "Unauthorized"

\* C18: a successful mutator call changes its own field and no other.
C18_MutatorFrame ==
    [][ret'.status = "Ok" =>
          /\ call'.op = "update_multiply_factor"
                 => UNCHANGED <<owner, percentage_denominator, percentage_bonus>>
          /\ call'.op = "update_percentage_bonus"
                 => UNCHANGED <<multiply_factor, owner, percentage_denominator>>
          /\ call'.op = "transfer_ownership"
                 => UNCHANGED <<multiply_factor, percentage_denominator,
                                percentage_bonus>>]_vars

\* The factor has been changed, the bonus and the owner being as deployed.
C18_Witness ==
    /\ call.op = "update_multiply_factor"
    /\ ret.status = "Ok"
    /\ multiply_factor = 5000
    /\ log = <<MultiplyFactorUpdated(2, 5000)>>
    /\ owner = 2
    /\ percentage_bonus = 1000
    /\ percentage_denominator = 10000

\* the reward of the last query's arguments at another current_time
RewardAt(t) ==
    reward_at_time(U256(call.args.amount), U256(t), U256(call.args.start_time),
                   U256(call.args.end_time), call.args.has_bonus,
                   call.args.has_strict_bonus)

\* C15 as stated: with everything else fixed, the reward does not grow with
\* current_time, across the window's ends and for empty or inverted windows.
C15_NonIncreasing ==
    (call.op = "calculate_reward_at_time" /\ ret.status = "Ok")
        => \A t \in {x \in Times : x > call.args.current_time} :
               RewardAt(t).v <= ret.reward

\* C15 amended: the same, for the times at which no intermediate value wraps.
C15_NonIncreasingUnlessWrapped ==
    (call.op = "calculate_reward_at_time" /\ ret.status = "Ok" /\ ret.faults = {})
        => \A t \in {x \in Times : x > call.args.current_time} :
               LET later == RewardAt(t)
               IN  later.f = {} => later.v <= ret.reward

\* A query inside a window: 999 at a third of [500, 2000] is 832, more than
\* the 666 of one unit later and the 499 from the end on.
C15_Witness ==
    /\ call.op = "calculate_reward_at_time"
    /\ NoBonus
    /\ call.args.amount = 999
    /\ call.args.start_time = 500
    /\ call.args.end_time = 2000
    /\ call.args.current_time = 1000
    /\ ret.reward = 832
    /\ RewardAt(1500).v = 666
    /\ RewardAt(2000).v = 499

\* 2^(w/2), w the width of the arithmetic
HalfWidthLimit == 2 ^ (Width \div 2)

\* the arguments and the two rates of the last query are below 2^(w/2)
InHalfWidth ==
    /\ call.args.amount < HalfWidthLimit
    /\ call.args.current_time < HalfWidthLimit
    /\ call.args.start_time < HalfWidthLimit
    /\ call.args.end_time < HalfWidthLimit
    /\ multiply_factor < HalfWidthLimit
    /\ percentage_bonus < HalfWidthLimit

\* C19: with amount, multiply_factor, percentage_bonus and the three times
\* below 2^(w/2), no intermediate value of calculate_reward_at_time reaches
\* 2^w, and the reward is that of the formula over unbounded integers.
C19_NoOverflowBelowHalfWidth ==
    (call.op = "calculate_reward_at_time" /\ InHalfWidth)
        => /\ ret.faults = {}
           /\ ret.status = "Ok"
           /\ ret.reward = ExpectedReward(percentage_denominator, multiply_factor,
                                          percentage_bonus, call.args)

\* The largest amount and factor below 2^(w/2), with both bonuses, before
\* the window: 16383 + 1638 + 26840.
C19_Witness ==
    /\ call.op = "calculate_reward_at_time"
    /\ call.args.amount = 16383
    /\ multiply_factor = 16383
    /\ percentage_bonus = 1000
    /\ call.args.has_bonus
    /\ call.args.has_strict_bonus
    /\ call.args.current_time <= call.args.start_time
    /\ InHalfWidth
    /\ ret.reward = 44861

\* C14: a reward query writes nothing: the four configuration fields and
\* the events are as before it; and a calculate_reward_at_time call returns
\* what an earlier call with the same arguments returned, by whichever
\* caller, if no mutation has succeeded in between.
C14_QueriesReadOnly ==
    [][/\ call'.op \in QueryOps
              => (config' = config /\ log' = log /\ constructed' = constructed)
       /\ (/\ call'.op = "calculate_reward_at_time"
           /\ history.queried
           /\ history.args = call'.args)
              => ret' = history.ret]_vars

\* A second identity has repeated the remembered query, after an update.
C14_Witness ==
    /\ call.op = "calculate_reward_at_time"
    /\ history.queried
    /\ history.args = call.args
    /\ history.querier # call.tx_origin
    /\ ret = history.ret
    /\ ret.status = "Ok"
    /\ log # <<>>

\* the index of the latest event of a kind in a log, 0 if there is none
Latest(events, kind) ==
    LET at == {i \in 1 .. Len(events) : events[i].event = kind}
    IN  IF at = {} THEN 0 ELSE CHOOSE i \in at : \A j \in at : j <= i

\* the owner, the factor and the bonus a log and the deployment account for
OwnerByLog(events) ==
    IF Latest(events, "OwnershipTransferred") = 0 THEN history.deployer
    ELSE events[Latest(events, "OwnershipTransferred")].new_owner

FactorByLog(events) ==
    IF Latest(events, "MultiplyFactorUpdated") = 0 THEN history.initial_factor
    ELSE events[Latest(events, "MultiplyFactorUpdated")].value

BonusByLog(events) ==
    IF Latest(events, "PercentageBonusUpdated") = 0 THEN 1000
    ELSE events[Latest(events, "PercentageBonusUpdated")].value

\* C16: the events agree with the stored configuration: every
\* OwnershipTransferred names as previous_owner the new_owner of the transfer
\* before it, the first one the deployer, and the stored owner is the last
\* new_owner (the deployer if there is none); multiply_factor is the value of
\* the last MultiplyFactorUpdated (the constructor's argument if none);
\* percentage_bonus is that of the last PercentageBonusUpdated (1000 if none).
C16_LogAgreesWithConfig ==
    constructed =>
        /\ \A i \in 1 .. Len(log) :
               log[i].event = "OwnershipTransferred"
                   => log[i].sender = OwnerByLog(SubSeq(log, 1, i - 1))
        /\ owner = OwnerByLog(log)
        /\ multiply_factor = FactorByLog(log)
        /\ percentage_bonus = BonusByLog(log)

\* Deployed by 1 with factor 1; ownership went to 2, who set the factor.
C16_Witness ==
    /\ history.deployer = 1
    /\ history.initial_factor = 1
    /\ log = <<OwnershipTransferred(1, 2), MultiplyFactorUpdated(2, 5000)>>
    /\ owner = 2
    /\ multiply_factor = 5000
    /\ percentage_bonus = 1000

====
